---- MODULE Spec2Model ----
(***************************************************************************)
(* A model of the boxing application: the competitor store kept by         *)
(* boxing/models/boxers_model.py and the two-slot ring of                  *)
(* boxing/models/ring_model.py.                                            *)
(*                                                                         *)
(* Units: reach is held in tenths of an inch (72.5 in = 725), a skill in   *)
(* hundredths (547.45 = 54745) and a random draw in hundredths (0.73 = 73: *)
(* the randomness source answers with two decimals).                       *)
(***************************************************************************)
EXTENDS Integers, Sequences, FiniteSets, TLC

\* ------------------------------------------------------------------ bounds
\* Row ids the store hands out are 1..MaxId.
MaxId == 2
\* The fights counters of the stored rows are not driven past MaxFights in total.
MaxFights == 2

\* --------------------------------------------------------------- constants
MinWeight == 125
MinAge == 18
MaxAge == 40
YoungAge == 25
OldAge == 35

VARIABLES
    boxers,   \* the boxers table: row id -> row, defined on the stored ids
    ring,     \* RingModel.ring: the sequence of Boxer objects in the ring
    last,     \* the outcome of the last call: what ran, what it raised or returned
    pending   \* the calls in progress: for each caller, where its call stands

vars == <<boxers, ring, last, pending>>

Ids == 1..MaxId

\* ------------------------------------------------------------ input domains
\* The arguments the callers create competitors with.
CreateArgs ==
    { [name |-> "Ali",   weight |-> 180, height |-> 70, reach |-> 725, age |-> 28],
      [name |-> "Joe",   weight |-> 180, height |-> 70, reach |-> 725, age |-> 18],
      [name |-> "Rocky", weight |-> 124, height |-> 70, reach |-> 700, age |-> 30] }

\* The results update_boxer_stats is called with.
Results == {"win", "loss", "draw"}

\* What one request to the randomness source gives: a number of hundredths in
\* 0..100, or a failure.
Draws == {0, 50, 73, 74, 100}
RandomFailures == {"RuntimeError", "ValueError"}

\* -------------------------------------------------------------- boxers_model
get_weight_class_ExclusiveBounds(weight) ==
    IF weight > 203 THEN "HEAVYWEIGHT"
    ELSE IF weight > 166 THEN "MIDDLEWEIGHT"
    ELSE IF weight > 133 THEN "LIGHTWEIGHT"
    ELSE IF weight > MinWeight THEN "FEATHERWEIGHT"
    ELSE "ValueError"

get_weight_class(weight) ==
    IF weight >= 203 THEN "HEAVYWEIGHT"
    ELSE IF weight >= 166 THEN "MIDDLEWEIGHT"
    ELSE IF weight >= 133 THEN "LIGHTWEIGHT"
    ELSE IF weight >= MinWeight THEN "FEATHERWEIGHT"
    ELSE "ValueError"

\* The Boxer dataclass: the six fields and the weight class __post_init__ sets.
Boxer_ClassOfHeight(id, name, weight, height, reach, age) ==
    [kind |-> "Boxer", id |-> id, name |-> name, weight |-> weight,
     height |-> height, reach |-> reach, age |-> age,
     weight_class |-> get_weight_class(height)]

Boxer(id, name, weight, height, reach, age) ==
    [kind |-> "Boxer", id |-> id, name |-> name, weight |-> weight,
     height |-> height, reach |-> reach, age |-> age,
     weight_class |-> get_weight_class(weight)]

\* The boxers table gives the columns the INSERT leaves out their defaults.
TableDefaults == [fights |-> 0, wins |-> 0]

\* The row INSERT INTO boxers (name, weight, height, reach, age) stores.
NewRow(a) ==
    [name |-> a.name, weight |-> a.weight, height |-> a.height,
     reach |-> a.reach, age |-> a.age,
     fights |-> TableDefaults.fights, wins |-> TableDefaults.wins]

\* The ids the table may give the next inserted row: any id no stored row has.
FreeIds == Ids \ DOMAIN boxers

NameExists_Never(store, name) == FALSE

NameExists(store, name) == \E i \in DOMAIN store : store[i].name = name

\* The first check of create_boxer that fails, or "none".
CreateCheck_AgeExclusive(a) ==
    IF a.weight < MinWeight THEN "weight"
    ELSE IF a.height <= 0 THEN "height"
    ELSE IF a.reach <= 0 THEN "reach"
    ELSE IF ~(MinAge < a.age /\ a.age < MaxAge) THEN "age"
    ELSE "none"

CreateCheck(a) ==
    IF a.weight < MinWeight THEN "weight"
    ELSE IF a.height <= 0 THEN "height"
    ELSE IF a.reach <= 0 THEN "reach"
    ELSE IF ~(MinAge <= a.age /\ a.age <= MaxAge) THEN "age"
    ELSE "none"

\* The store with row id added / removed / replaced.
Insert_Alone(store, id, row) == [i \in {id} |-> row]

Insert(store, id, row) ==
    [i \in DOMAIN store \cup {id} |-> IF i = id THEN row ELSE store[i]]
Remove_Nothing(store, id) == store

Remove(store, id) ==
    [i \in DOMAIN store \ {id} |-> store[i]]

\* update_boxer_stats as a function of the store: the error it raises ("none"
\* when it returns) and the store it leaves.
StatsRow_LossUncounted(row, result) ==
    IF result = "win"
    THEN [row EXCEPT !.fights = @ + 1, !.wins = @ + 1]
    ELSE row

StatsRow_WinWithoutFight(row, result) ==
    IF result = "win"
    THEN [row EXCEPT !.wins = @ + 1]
    ELSE [row EXCEPT !.fights = @ + 1]

StatsRow(row, result) ==
    IF result = "win"
    THEN [row EXCEPT !.fights = @ + 1, !.wins = @ + 1]
    ELSE [row EXCEPT !.fights = @ + 1]

UpdateStats_AllRows(store, id, result) ==
    IF result \notin {"win", "loss"}
    THEN [err |-> "ValueError", msg |-> "Invalid result", store |-> store]
    ELSE IF id \notin DOMAIN store
    THEN [err |-> "ValueError", msg |-> "not found", store |-> store]
    ELSE [err |-> "none", msg |-> "",
          store |-> [i \in DOMAIN store |-> StatsRow(store[i], result)]]

UpdateStats_LookupFirst(store, id, result) ==
    IF id \notin DOMAIN store
    THEN [err |-> "ValueError", msg |-> "not found", store |-> store]
    ELSE IF result \notin {"win", "loss"}
    THEN [err |-> "ValueError", msg |-> "Invalid result", store |-> store]
    ELSE [err |-> "none", msg |-> "",
          store |-> [store EXCEPT ![id] = StatsRow(@, result)]]

UpdateStats(store, id, result) ==
    IF result \notin {"win", "loss"}
    THEN [err |-> "ValueError", msg |-> "Invalid result", store |-> store]
    ELSE IF id \notin DOMAIN store
    THEN [err |-> "ValueError", msg |-> "not found", store |-> store]
    ELSE [err |-> "none", msg |-> "",
          store |-> [store EXCEPT ![id] = StatsRow(@, result)]]

\* ---------------------------------------------------------------- ring_model
\* The objects enter_ring is called with: a Boxer of any id with the attributes
\* of a competitor that passes create_boxer (what get_boxer_by_id gives, now or
\* before a delete), a Boxer the caller built itself, as the tests do with
\* id = 1, and an object that is no Boxer.
ValidArgs == {a \in CreateArgs : CreateCheck(a) = "none"}
BoxerObjects ==
    {Boxer(id, a.name, a.weight, a.height, a.reach, a.age) : id \in Ids, a \in ValidArgs}
    \cup {Boxer(1, "Tyson", 125, 70, 700, 40)}
OtherObjects == {[kind |-> "str", value |-> "NotABoxer"]}
isinstance_Boxer(x) == x.kind = "Boxer"

\* get_fighting_skill, in hundredths.
get_fighting_skill_AgeInclusive(boxer) ==
    LET age_modifier == IF boxer.age <= YoungAge THEN -1
                        ELSE IF boxer.age >= OldAge THEN -2 ELSE 0
    IN  (boxer.weight * Len(boxer.name)) * 100 + boxer.reach + age_modifier * 100

get_fighting_skill(boxer) ==
    LET age_modifier == IF boxer.age < YoungAge THEN -1
                        ELSE IF boxer.age > OldAge THEN -2 ELSE 0
    IN  (boxer.weight * Len(boxer.name)) * 100 + boxer.reach + age_modifier * 100

Abs(x) == IF x < 0 THEN -x ELSE x

\* LogitTable[k - 50], k in 51..99, is floor(100 * ln(k / (100 - k))): the
\* largest delta, in hundredths, whose 1 / (1 + e^-delta) is at most k / 100.
LogitTable ==
    << 4, 8, 12, 16, 20, 24, 28, 32, 36, 40, 44, 48, 53, 57, 61, 66, 70, 75,
       80, 84, 89, 94, 99, 104, 109, 115, 120, 126, 132, 138, 145, 151, 158,
       165, 173, 181, 190, 199, 209, 219, 231, 244, 258, 275, 294, 317, 347,
       389, 459 >>

\* normalized_delta = 1 / (1 + e^-delta) as the number t of hundredths with
\* r < normalized_delta exactly when r < t: 50 for delta = 0 (the threshold is
\* 0.5 itself), 100 once the threshold is above 0.99 (1.00 is never below it).
Threshold(delta) ==
    IF delta = 0 THEN 50
    ELSE IF \E k \in 1..Len(LogitTable) : delta <= LogitTable[k]
    THEN 50 + CHOOSE k \in 1..Len(LogitTable) :
                  /\ delta <= LogitTable[k]
                  /\ \A j \in 1..(k - 1) : delta > LogitTable[j]
    ELSE 100

\* One call of a collaborator, as it appears in the call log of an operation.
Call(fn, id, result) == [fn |-> fn, id |-> id, result |-> result]

\* A statement run on the database: the connection is opened, then the table is
\* read or written.
DbOpen == Call("get_db_connection", 0, "")

\* The record kept of a call: the operation, its argument (for fight and
\* clear_ring, which take none, the ring they found), the error raised ("none"
\* when it returned), the value returned or the error's message, the number
\* drawn (-1 when none was) and the calls it made, in order.
Outcome(op, arg, err, ret, draw, calls) ==
    [op |-> op, arg |-> arg, err |-> err, ret |-> ret, draw |-> draw, calls |-> calls]

NoArg == [kind |-> "none"]

\* The fights recorded in the store, all rows together.
RECURSIVE TotalFights(_)
TotalFights(store) ==
    IF DOMAIN store = {} THEN 0
    ELSE LET i == CHOOSE j \in DOMAIN store : TRUE
         IN  store[i].fights + TotalFights([j \in DOMAIN store \ {i} |-> store[j]])

WithinBounds(store) == TotalFights(store) <= MaxFights

\* The callers whose calls may be in progress at once, and a caller with no call
\* in progress. Where every call runs alone, none is ever in progress.
Callers == {"A", "B"}
Idle == [pc |-> "idle"]
NoPending == [t \in Callers |-> Idle]

\* ---------------------------------------------------------------------- Init
Init ==
    /\ boxers = <<>>
    /\ ring = <<>>
    /\ last = Outcome("__init__", NoArg, "none", "", -1, <<>>)
    /\ pending = NoPending

\* -------------------------------------------------------------- create_boxer
create_boxer(a) ==
    /\ UNCHANGED <<ring, pending>>
    /\ IF CreateCheck(a) # "none"
       THEN /\ last' = Outcome("create_boxer", a, "ValueError", CreateCheck(a), -1, <<>>)
            /\ UNCHANGED boxers
       ELSE IF NameExists(boxers, a.name)
       THEN /\ last' = Outcome("create_boxer", a, "ValueError", "already exists", -1,
                               <<DbOpen>>)
            /\ UNCHANGED boxers
       ELSE \E id \in FreeIds :
            /\ boxers' = Insert(boxers, id, NewRow(a))
            /\ last' = Outcome("create_boxer", a, "none", "None", -1, <<DbOpen>>)

\* -------------------------------------------------------------- delete_boxer
delete_boxer_EvictsFromRing(boxer_id) ==
    /\ UNCHANGED pending
    /\ IF boxer_id \notin DOMAIN boxers
       THEN /\ last' = Outcome("delete_boxer", boxer_id, "ValueError", "not found", -1,
                               <<DbOpen>>)
            /\ UNCHANGED <<boxers, ring>>
       ELSE /\ boxers' = Remove(boxers, boxer_id)
            /\ ring' = SelectSeq(ring, LAMBDA b : b.id # boxer_id)
            /\ last' = Outcome("delete_boxer", boxer_id, "none", "None", -1, <<DbOpen>>)

delete_boxer(boxer_id) ==
    /\ UNCHANGED <<ring, pending>>
    /\ IF boxer_id \notin DOMAIN boxers
       THEN /\ last' = Outcome("delete_boxer", boxer_id, "ValueError", "not found", -1,
                               <<DbOpen>>)
            /\ UNCHANGED boxers
       ELSE /\ boxers' = Remove(boxers, boxer_id)
            /\ last' = Outcome("delete_boxer", boxer_id, "none", "None", -1, <<DbOpen>>)

\* -------------------------------------------------------- update_boxer_stats
update_boxer_stats(boxer_id, result) ==
    LET u == UpdateStats(boxers, boxer_id, result) IN
    /\ UNCHANGED <<ring, pending>>
    /\ WithinBounds(u.store)
    /\ boxers' = u.store
    /\ last' = Outcome("update_boxer_stats", <<boxer_id, result>>, u.err,
                       IF u.err = "none" THEN "None" ELSE u.msg, -1,
                       IF u.msg = "Invalid result" THEN <<>> ELSE <<DbOpen>>)

\* ---------------------------------------------------------------- clear_ring
\* The ring clear_ring leaves.
Cleared_PopLast(r) == IF r = <<>> THEN r ELSE SubSeq(r, 1, Len(r) - 1)

Cleared(r) == IF r = <<>> THEN r ELSE <<>>

clear_ring ==
    /\ ring' = Cleared(ring)
    /\ last' = Outcome("clear_ring", ring, "none", "None", -1, <<>>)
    /\ UNCHANGED <<boxers, pending>>

\* ---------------------------------------------------------------- enter_ring
\* The error enter_ring raises for this argument on this ring, or "none".
EnterCheck_CapacityOffByOne(r, boxer) ==
    IF ~isinstance_Boxer(boxer) THEN "TypeError"
    ELSE IF Len(r) > 2 THEN "ValueError"
    ELSE "none"

EnterCheck_CapacityFirst(r, boxer) ==
    IF Len(r) >= 2 THEN "ValueError"
    ELSE IF ~isinstance_Boxer(boxer) THEN "TypeError"
    ELSE "none"

EnterCheck_RefusesSameId(r, boxer) ==
    IF ~isinstance_Boxer(boxer) THEN "TypeError"
    ELSE IF Len(r) >= 2 THEN "ValueError"
    ELSE IF \E k \in 1..Len(r) : r[k].id = boxer.id THEN "ValueError"
    ELSE "none"

EnterCheck(r, boxer) ==
    IF ~isinstance_Boxer(boxer) THEN "TypeError"
    ELSE IF Len(r) >= 2 THEN "ValueError"
    ELSE "none"

enter_ring_AppendFirst(boxer) ==
    /\ UNCHANGED <<boxers, pending>>
    /\ last' = Outcome("enter_ring", boxer, EnterCheck(ring, boxer),
                       IF EnterCheck(ring, boxer) = "none" THEN "None" ELSE "", -1, <<>>)
    /\ ring' = IF isinstance_Boxer(boxer) THEN Append(ring, boxer) ELSE ring

enter_ring_Prepend(boxer) ==
    /\ UNCHANGED <<boxers, pending>>
    /\ last' = Outcome("enter_ring", boxer, EnterCheck(ring, boxer),
                       IF EnterCheck(ring, boxer) = "none" THEN "None" ELSE "", -1, <<>>)
    /\ ring' = IF EnterCheck(ring, boxer) = "none" THEN <<boxer>> \o ring ELSE ring

enter_ring(boxer) ==
    /\ UNCHANGED <<boxers, pending>>
    /\ last' = Outcome("enter_ring", boxer, EnterCheck(ring, boxer),
                       IF EnterCheck(ring, boxer) = "none" THEN "None" ELSE "", -1, <<>>)
    /\ ring' = IF EnterCheck(ring, boxer) = "none" THEN Append(ring, boxer) ELSE ring

\* ---------------------------------------------------------------- get_boxers
get_boxers == ring

\* --------------------------------------------------------------------- fight
Decide_FavouriteWins(r, random_number) ==
    LET first_is_favourite == get_fighting_skill(r[1]) >= get_fighting_skill(r[2])
        favourite == IF first_is_favourite THEN r[1] ELSE r[2]
        underdog  == IF first_is_favourite THEN r[2] ELSE r[1]
        delta == Abs(get_fighting_skill(r[1]) - get_fighting_skill(r[2]))
    IN  IF random_number < Threshold(delta)
        THEN [winner |-> favourite, loser |-> underdog]
        ELSE [winner |-> underdog, loser |-> favourite]

\* The winner and the loser fight() decides on for a full ring and a draw.
Decide(r, random_number) ==
    LET boxer_1 == r[1]
        boxer_2 == r[2]
        skill_1 == get_fighting_skill(boxer_1)
        skill_2 == get_fighting_skill(boxer_2)
        delta == Abs(skill_1 - skill_2)
    IN  IF random_number < Threshold(delta)
        THEN [winner |-> boxer_1, loser |-> boxer_2]
        ELSE [winner |-> boxer_2, loser |-> boxer_1]

FightWith_LossFirst(random_number) ==
    LET d  == Decide(get_boxers, random_number)
        c0 == <<Call("get_random", 0, "")>>
        c1 == Append(c0, Call("update_boxer_stats", d.loser.id, "loss"))
        c2 == Append(c1, Call("update_boxer_stats", d.winner.id, "win"))
        c3 == Append(c2, Call("clear_ring", 0, ""))
        u1 == UpdateStats(boxers, d.loser.id, "loss")
        u2 == UpdateStats(u1.store, d.winner.id, "win")
    IN  IF u1.err # "none"
        THEN /\ last' = Outcome("fight", ring, u1.err, u1.msg, random_number, c1)
             /\ UNCHANGED <<boxers, ring>>
        ELSE IF u2.err # "none"
        THEN /\ last' = Outcome("fight", ring, u2.err, u2.msg, random_number, c2)
             /\ boxers' = u1.store
             /\ UNCHANGED ring
        ELSE /\ last' = Outcome("fight", ring, "none", d.winner.name, random_number, c3)
             /\ boxers' = u2.store
             /\ ring' = Cleared(ring)

FightWith_ClearsOnFailure(random_number) ==
    LET d  == Decide(get_boxers, random_number)
        c0 == <<Call("get_random", 0, "")>>
        c1 == Append(c0, Call("update_boxer_stats", d.winner.id, "win"))
        c2 == Append(c1, Call("update_boxer_stats", d.loser.id, "loss"))
        c3 == Append(c2, Call("clear_ring", 0, ""))
        u1 == UpdateStats(boxers, d.winner.id, "win")
        u2 == UpdateStats(u1.store, d.loser.id, "loss")
    IN  IF u1.err # "none"
        THEN /\ last' = Outcome("fight", ring, u1.err, u1.msg, random_number, c1)
             /\ ring' = Cleared(ring)
             /\ UNCHANGED boxers
        ELSE IF u2.err # "none"
        THEN /\ last' = Outcome("fight", ring, u2.err, u2.msg, random_number, c2)
             /\ boxers' = u1.store
             /\ ring' = Cleared(ring)
        ELSE /\ last' = Outcome("fight", ring, "none", d.winner.name, random_number, c3)
             /\ boxers' = u2.store
             /\ ring' = Cleared(ring)

\* fight() once the draw is made: the two stats updates in the order the code
\* makes them, the first failure ending the call; then the ring is cleared.
FightWith(random_number) ==
    LET d  == Decide(get_boxers, random_number)
        c0 == <<Call("get_random", 0, "")>>
        c1 == Append(c0, Call("update_boxer_stats", d.winner.id, "win"))
        c2 == Append(c1, Call("update_boxer_stats", d.loser.id, "loss"))
        c3 == Append(c2, Call("clear_ring", 0, ""))
        u1 == UpdateStats(boxers, d.winner.id, "win")
        u2 == UpdateStats(u1.store, d.loser.id, "loss")
    IN  IF u1.err # "none"
        THEN /\ last' = Outcome("fight", ring, u1.err, u1.msg, random_number, c1)
             /\ UNCHANGED <<boxers, ring>>
        ELSE IF u2.err # "none"
        THEN /\ last' = Outcome("fight", ring, u2.err, u2.msg, random_number, c2)
             /\ boxers' = u1.store
             /\ UNCHANGED ring
        ELSE /\ last' = Outcome("fight", ring, "none", d.winner.name, random_number, c3)
             /\ boxers' = u2.store
             /\ ring' = Cleared(ring)

FightTooFew_ClearsRing ==
    /\ last' = Outcome("fight", ring, "ValueError", "two boxers", -1, <<>>)
    /\ ring' = <<>>
    /\ UNCHANGED boxers

\* fight() on a ring of fewer than two boxers.
FightTooFew ==
    /\ last' = Outcome("fight", ring, "ValueError", "two boxers", -1, <<>>)
    /\ UNCHANGED <<boxers, ring>>

\* fight() when get_random raises e.
FightNoDraw_Retry(e) ==
    /\ last' = Outcome("fight", ring, e, "random.org", -1,
                       <<Call("get_random", 0, ""), Call("get_random", 0, "")>>)
    /\ UNCHANGED <<boxers, ring>>

FightNoDraw(e) ==
    /\ last' = Outcome("fight", ring, e, "random.org", -1, <<Call("get_random", 0, "")>>)
    /\ UNCHANGED <<boxers, ring>>

fight ==
    /\ UNCHANGED pending
    /\ IF Len(ring) < 2
       THEN FightTooFew
       ELSE \/ \E e \in RandomFailures : FightNoDraw(e)
            \/ \E random_number \in Draws :
                 /\ FightWith(random_number)
                 /\ WithinBounds(boxers')

\* ---------------------------------------------------------------------- Next
Create == \E a \in CreateArgs : create_boxer(a)
Delete == \E i \in Ids : delete_boxer(i)
Update == \E i \in Ids, res \in Results : update_boxer_stats(i, res)
Enter  == \E b \in BoxerObjects \cup OtherObjects : enter_ring(b)

Next ==
    \/ Create
    \/ Delete
    \/ Update
    \/ Enter
    \/ fight
    \/ clear_ring

Spec == Init /\ [][Next]_vars

\* ---------------------------------------------------------------- type check
TypeOK ==
    /\ DOMAIN boxers \subseteq Ids
    /\ \A i \in DOMAIN boxers : boxers[i].fights \in 0..MaxFights
    /\ \A k \in 1..Len(ring) : ring[k] \in BoxerObjects
    /\ last.op \in {"__init__", "create_boxer", "delete_boxer", "update_boxer_stats",
                    "enter_ring", "fight", "clear_ring"}

\* ------------------------------------------------------------ get_boxer_by_id
get_boxer_by_id(boxer_id) ==
    /\ UNCHANGED <<boxers, ring, pending>>
    /\ IF boxer_id \in DOMAIN boxers
       THEN LET row == boxers[boxer_id]
            IN  last' = Outcome("get_boxer_by_id", boxer_id, "none",
                                Boxer(boxer_id, row.name, row.weight, row.height,
                                      row.reach, row.age),
                                -1, <<DbOpen>>)
       ELSE last' = Outcome("get_boxer_by_id", boxer_id, "ValueError", "not found", -1,
                            <<DbOpen>>)

\* ---------------------------------------------------------- get_boxer_by_name
get_boxer_by_name(boxer_name) ==
    /\ UNCHANGED <<boxers, ring, pending>>
    /\ IF NameExists(boxers, boxer_name)
       THEN \E i \in DOMAIN boxers :
              /\ boxers[i].name = boxer_name
              /\ LET row == boxers[i]
                 IN  last' = Outcome("get_boxer_by_name", boxer_name, "none",
                                     Boxer(i, row.name, row.weight, row.height,
                                           row.reach, row.age),
                                     -1, <<DbOpen>>)
       ELSE last' = Outcome("get_boxer_by_name", boxer_name, "ValueError", "not found",
                            -1, <<DbOpen>>)

\* ------------------------------------------------------------ get_leaderboard
\* The sort keys get_leaderboard is called with: the two it knows and another.
SortKeys == {"wins", "win_pct", "height"}

\* WHERE fights > 0: the ids of the rows the query selects.
Selected_MoreThanOneFight(store) == {i \in DOMAIN store : store[i].fights > 1}

Selected(store) == {i \in DOMAIN store : store[i].fights > 0}

\* round(win_pct * 100, 1), in tenths of a percent, of a row with fights > 0:
\* the nearest tenth, the even one of two equally near (the value the floating-
\* point computation gives for every row of fewer than 80 fights).
WinPct(row) ==
    LET q == (1000 * row.wins) \div row.fights
        r == (1000 * row.wins) % row.fights
    IN  IF 2 * r > row.fights \/ (2 * r = row.fights /\ q % 2 = 1) THEN q + 1 ELSE q

\* The dictionary built for one selected row.
Entry(store, i) ==
    [id |-> i, name |-> store[i].name, weight |-> store[i].weight,
     height |-> store[i].height, reach |-> store[i].reach, age |-> store[i].age,
     weight_class |-> get_weight_class(store[i].weight),
     fights |-> store[i].fights, wins |-> store[i].wins,
     win_pct |-> WinPct(store[i])]

\* ORDER BY ... DESC: row a may be delivered before row b.
MayPrecede_ByRoundedPct(sort_by, a, b) ==
    IF sort_by = "wins"
    THEN a.wins >= b.wins
    ELSE WinPct(a) >= WinPct(b)

MayPrecede(sort_by, a, b) ==
    IF sort_by = "wins"
    THEN a.wins >= b.wins
    ELSE a.wins * b.fights >= b.wins * a.fights

\* The orders the query may deliver the selected rows in: each once, rows with
\* equal keys in any order.
RowOrders(store, sort_by) ==
    {s \in [1..Cardinality(Selected(store)) -> Selected(store)] :
        /\ \A j, k \in DOMAIN s : j # k => s[j] # s[k]
        /\ \A j, k \in DOMAIN s : j < k => MayPrecede(sort_by, store[s[j]], store[s[k]])}

get_leaderboard_QueryFirst(sort_by) ==
    /\ UNCHANGED <<boxers, ring, pending>>
    /\ IF sort_by \notin {"wins", "win_pct"}
       THEN last' = Outcome("get_leaderboard", sort_by, "ValueError", "Invalid sort_by",
                            -1, <<DbOpen>>)
       ELSE \E s \in RowOrders(boxers, sort_by) :
              last' = Outcome("get_leaderboard", sort_by, "none",
                              [k \in 1..Len(s) |-> Entry(boxers, s[k])], -1, <<DbOpen>>)

get_leaderboard(sort_by) ==
    /\ UNCHANGED <<boxers, ring, pending>>
    /\ IF sort_by \notin {"wins", "win_pct"}
       THEN last' = Outcome("get_leaderboard", sort_by, "ValueError", "Invalid sort_by",
                            -1, <<>>)
       ELSE \E s \in RowOrders(boxers, sort_by) :
              last' = Outcome("get_leaderboard", sort_by, "none",
                              [k \in 1..Len(s) |-> Entry(boxers, s[k])], -1, <<DbOpen>>)

\* ------------------------------------------------- the store, called directly
\* The arguments create_boxer is called with when the store is exercised on its
\* own: three profiles that pass every check, at weight 125 and at ages 18 and
\* 40, and profiles that fail one check or several.
Ali == [name |-> "Ali", weight |-> 180, height |-> 70, reach |-> 725, age |-> 28]

StoreCreateArgs ==
    { Ali,
      [Ali EXCEPT !.name = "Joe", !.age = MinAge],
      [Ali EXCEPT !.name = "Tyson", !.weight = MinWeight, !.reach = 700, !.age = MaxAge],
      [Ali EXCEPT !.weight = MinWeight - 1],
      [Ali EXCEPT !.height = 0],
      [Ali EXCEPT !.reach = 0],
      [Ali EXCEPT !.name = "Rocky", !.reach = -5],
      [Ali EXCEPT !.age = MinAge - 1],
      [Ali EXCEPT !.name = "Rocky", !.age = MaxAge + 1],
      [Ali EXCEPT !.name = "Rocky", !.weight = MinWeight - 1, !.age = MaxAge + 1] }

Names == {a.name : a \in StoreCreateArgs}

StoreCreate == \E a \in StoreCreateArgs : create_boxer(a)
GetById     == \E i \in Ids : get_boxer_by_id(i)
GetByName   == \E n \in Names : get_boxer_by_name(n)
Leaderboard == \E k \in SortKeys : get_leaderboard(k)

NextStore ==
    \/ StoreCreate
    \/ Delete
    \/ Update
    \/ GetById
    \/ GetByName
    \/ Leaderboard

SpecStore == Init /\ [][NextStore]_vars

\* ------------------------------------------------ the leaderboard, on any store
\* The competitor stored under each id, and the <<wins, fights>> a stored row
\* may have reached.
BoardProfiles ==
    << Ali,
       [Ali EXCEPT !.name = "Joe", !.age = MinAge],
       [Ali EXCEPT !.name = "Tyson", !.weight = MinWeight, !.reach = 700, !.age = MaxAge],
       [Ali EXCEPT !.name = "Frazier", !.weight = 205] >>

BoardStats ==
    {<<0, 0>>, <<0, 1>>, <<1, 1>>, <<1, 2>>, <<2, 4>>, <<8, 10>>, <<9, 12>>,
     <<1, 30>>, <<2, 61>>}

BoardStore(f) ==
    [i \in DOMAIN f |-> [NewRow(BoardProfiles[i]) EXCEPT !.wins = f[i][1],
                                                         !.fights = f[i][2]]]

BoardStores == {BoardStore(f) : f \in UNION {[S -> BoardStats] : S \in SUBSET Ids}}

InitBoard ==
    /\ boxers \in BoardStores
    /\ ring = <<>>
    /\ last = Outcome("__init__", NoArg, "none", "", -1, <<>>)
    /\ pending = NoPending

NextBoard == Leaderboard

SpecBoard == InitBoard /\ [][NextBoard]_vars

\* --------------------------------------------------- get_weight_class, called
\* The weights get_weight_class is called with run from 0 to MaxWeight.
MaxWeight == 230

Weights == 0..MaxWeight

weight_class(weight) ==
    /\ UNCHANGED <<boxers, ring, pending>>
    /\ LET c == get_weight_class(weight)
       IN  last' = IF c = "ValueError"
                   THEN Outcome("get_weight_class", weight, "ValueError", "Invalid weight",
                                -1, <<>>)
                   ELSE Outcome("get_weight_class", weight, "none", c, -1, <<>>)

NextWeight == \E w \in Weights : weight_class(w)

SpecWeight == Init /\ [][NextWeight]_vars

\* ------------------------------------------------- get_fighting_skill, called
\* The Boxer objects get_fighting_skill is called with: names of 3, 5 and 7
\* characters, two weights, two reaches and ages on both sides of 25 and of 35.
SkillBoxers ==
    {Boxer(1, n, w, 70, rch, age) :
        n \in {"Ali", "Tyson", "Frazier"}, w \in {MinWeight, 180}, rch \in {700, 745},
        age \in {MinAge, YoungAge - 1, YoungAge, 28, OldAge, OldAge + 1, MaxAge}}

fighting_skill(boxer) ==
    /\ UNCHANGED <<boxers, ring, pending>>
    /\ last' = Outcome("get_fighting_skill", boxer, "none", get_fighting_skill(boxer),
                       -1, <<>>)

SkillOf == \E b \in SkillBoxers : fighting_skill(b)
SkillEnter ==
    \E b \in {Boxer(1, "Ali", 180, 70, 745, 28), Boxer(2, "Tyson", 125, 70, 700, 40)} :
        enter_ring(b)

NextSkill ==
    \/ SkillOf
    \/ SkillEnter
    \/ clear_ring

SpecSkill == Init /\ [][NextSkill]_vars

\* ------------------------------------------------ create_boxer, calls overlapping
\* The boxers table refuses a second row of a name: the INSERT raises
\* sqlite3.IntegrityError.
NameTaken(store, name) == \E i \in DOMAIN store : store[i].name = name

\* The callers with a call in progress. A call is begun only while the ids
\* 1..MaxId leave one for its INSERT.
InProgress == {t \in Callers : pending[t] # Idle}

\* The first half of create_boxer by caller t: the four checks and the SELECT on
\* the name. A call that passes both stands before its INSERT.
create_select(t, a) ==
    /\ pending[t] = Idle
    /\ Cardinality(FreeIds) > Cardinality(InProgress)
    /\ UNCHANGED <<boxers, ring>>
    /\ IF CreateCheck(a) # "none"
       THEN /\ last' = Outcome("create_boxer", a, "ValueError", CreateCheck(a), -1, <<>>)
            /\ UNCHANGED pending
       ELSE IF NameExists(boxers, a.name)
       THEN /\ last' = Outcome("create_boxer", a, "ValueError", "already exists", -1,
                               <<DbOpen>>)
            /\ UNCHANGED pending
       ELSE /\ pending' = [pending EXCEPT ![t] = [pc |-> "insert", arg |-> a]]
            /\ UNCHANGED last

\* The second half: the INSERT and the commit, or the IntegrityError turned into
\* the "already exists" ValueError.
create_insert_Unconstrained(t) ==
    /\ pending[t] # Idle
    /\ pending[t].pc = "insert"
    /\ UNCHANGED ring
    /\ pending' = [pending EXCEPT ![t] = Idle]
    /\ \E id \in FreeIds :
         /\ boxers' = Insert(boxers, id, NewRow(pending[t].arg))
         /\ last' = Outcome("create_boxer", pending[t].arg, "none", "None", -1, <<DbOpen>>)

create_insert(t) ==
    /\ pending[t] # Idle
    /\ pending[t].pc = "insert"
    /\ UNCHANGED ring
    /\ pending' = [pending EXCEPT ![t] = Idle]
    /\ IF NameTaken(boxers, pending[t].arg.name)
       THEN /\ last' = Outcome("create_boxer", pending[t].arg, "ValueError",
                               "already exists", -1,
                               <<DbOpen, Call("INSERT", 0, "IntegrityError")>>)
            /\ UNCHANGED boxers
       ELSE \E id \in FreeIds :
            /\ boxers' = Insert(boxers, id, NewRow(pending[t].arg))
            /\ last' = Outcome("create_boxer", pending[t].arg, "none", "None", -1,
                               <<DbOpen>>)

CreateSelect == \E t \in Callers, a \in CreateArgs : create_select(t, a)
CreateInsert == \E t \in Callers : create_insert(t)

NextCreateRace ==
    \/ CreateSelect
    \/ CreateInsert
    \/ Delete

SpecCreateRace == Init /\ [][NextCreateRace]_vars

\* ------------------------------------------------- ring and store, side by side
\* get_boxers, called: the ring itself is returned.
ring_boxers ==
    /\ UNCHANGED <<boxers, ring, pending>>
    /\ last' = Outcome("get_boxers", NoArg, "none", get_boxers, -1, <<>>)

\* Every operation of the store and of the ring, the ring being entered by the
\* first creatable competitor under each id and by an object that is no Boxer.
HandleObjects == {Boxer(id, Ali.name, Ali.weight, Ali.height, Ali.reach, Ali.age) : id \in Ids}

EnterHandle == \E b \in HandleObjects \cup OtherObjects : enter_ring(b)

NextAll ==
    \/ Create
    \/ Delete
    \/ Update
    \/ GetById
    \/ GetByName
    \/ Leaderboard
    \/ EnterHandle
    \/ ring_boxers
    \/ fight
    \/ clear_ring

SpecAll == Init /\ [][NextAll]_vars

\* -------------------------------------------------- enter_ring, calls overlapping
\* The first half of enter_ring by caller t: the isinstance check and the check
\* of len(self.ring). A call that passes both stands before its append, having
\* seen a ring of `seen` boxers.
enter_check_UpToThree(t, boxer) ==
    /\ pending[t] = Idle
    /\ UNCHANGED <<boxers, ring>>
    /\ IF isinstance_Boxer(boxer) /\ Len(ring) <= 2
       THEN /\ pending' = [pending EXCEPT
                              ![t] = [pc |-> "append", arg |-> boxer, seen |-> Len(ring)]]
            /\ UNCHANGED last
       ELSE /\ last' = Outcome("enter_ring", boxer, EnterCheck(ring, boxer), "", -1, <<>>)
            /\ UNCHANGED pending

enter_check(t, boxer) ==
    /\ pending[t] = Idle
    /\ UNCHANGED <<boxers, ring>>
    /\ IF EnterCheck(ring, boxer) = "none"
       THEN /\ pending' = [pending EXCEPT
                              ![t] = [pc |-> "append", arg |-> boxer, seen |-> Len(ring)]]
            /\ UNCHANGED last
       ELSE /\ last' = Outcome("enter_ring", boxer, EnterCheck(ring, boxer), "", -1, <<>>)
            /\ UNCHANGED pending

\* The second half: self.ring.append(boxer), on the ring as it is by then.
enter_append(t) ==
    /\ pending[t] # Idle
    /\ pending[t].pc = "append"
    /\ UNCHANGED boxers
    /\ ring' = Append(ring, pending[t].arg)
    /\ pending' = [pending EXCEPT ![t] = Idle]
    /\ last' = Outcome("enter_ring", pending[t].arg, "none", "None", -1, <<>>)

EnterChecked  == \E t \in Callers, b \in HandleObjects \cup OtherObjects : enter_check(t, b)
EnterAppended == \E t \in Callers : enter_append(t)

NextEnterRace ==
    \/ EnterChecked
    \/ EnterAppended
    \/ clear_ring

SpecEnterRace == Init /\ [][NextEnterRace]_vars

\* =================================================================== claims
\* A step that is a call of op / a state reached by a call of op.
Called(op) == last'.op = op
Returned(op) == last'.op = op /\ last'.err = "none"
After(op) == last.op = op
AfterReturn(op) == last.op = op /\ last.err = "none"

\* Row id is stored before and after the step and gained df fights and dw wins.
Gained(id, df, dw) ==
    /\ id \in DOMAIN boxers
    /\ id \in DOMAIN boxers'
    /\ boxers'[id].fights = boxers[id].fights + df
    /\ boxers'[id].wins = boxers[id].wins + dw

\* C1: whatever calls are made, one at a time, the ring holds 0, 1 or 2
\* competitors, never more.
RingHoldsAtMostTwo == Len(ring) \in {0, 1, 2}

\* A ring filled to two by enter_ring after matches were fought.
RingFilledAgain ==
    /\ AfterReturn("enter_ring")
    /\ Len(ring) = 2
    /\ TotalFights(boxers) > 0

\* C2, as stated: after a successful fight() one of the two occupants has
\* fights + 1 and wins + 1, the other fights + 1 and wins unchanged, and the
\* ring is empty.
FightCreditsOneWinOneLoss ==
    [][ Returned("fight") =>
          /\ ring' = <<>>
          /\ \E w, l \in {1, 2} :
                /\ w # l
                /\ Gained(ring[w].id, 1, 1)
                /\ Gained(ring[l].id, 1, 0) ]_vars

\* C2, amended: the same, for a ring whose two occupants have different ids.
FightCreditsDistinctOccupants ==
    [][ (Returned("fight") /\ ring[1].id # ring[2].id) =>
          /\ ring' = <<>>
          /\ \E w, l \in {1, 2} :
                /\ w # l
                /\ Gained(ring[w].id, 1, 1)
                /\ Gained(ring[l].id, 1, 0) ]_vars

\* A fight between occupants of different ids has returned.
FoughtDistinctOccupants ==
    /\ AfterReturn("fight")
    /\ last.arg[1].id # last.arg[2].id
    /\ ring = <<>>

\* C3: a successful fight() is won by the first-admitted occupant when the draw
\* is below the threshold of the absolute skill gap and by the second-admitted
\* one otherwise (the draw equal to the threshold included), whichever has the
\* higher skill; the winner's name is returned and the win is recorded on the
\* winner's id.
FirstAdmittedWinsBelowThreshold ==
    [][ Returned("fight") =>
          LET p == Threshold(Abs(get_fighting_skill(ring[1]) - get_fighting_skill(ring[2])))
              winner == IF last'.draw < p THEN ring[1] ELSE ring[2]
          IN  /\ last'.ret = winner.name
              /\ last'.calls[2] = Call("update_boxer_stats", winner.id, "win") ]_vars

\* The first-admitted occupant won against a second of higher skill.
UnderdogAdmittedFirstWon ==
    /\ AfterReturn("fight")
    /\ get_fighting_skill(last.arg[1]) < get_fighting_skill(last.arg[2])
    /\ last.ret = last.arg[1].name
    /\ last.arg[1].name # last.arg[2].name

\* C4: fight() on a ring of 0 or 1 competitors fails with an error, leaves the
\* ring as it was, makes no draw and changes no record.
FightNeedsTwo ==
    [][ (Called("fight") /\ Len(ring) < 2) =>
          /\ last'.err = "ValueError"
          /\ ring' = ring
          /\ boxers' = boxers
          /\ last'.draw = -1
          /\ last'.calls = <<>> ]_vars

\* fight() was refused on a ring of one.
FightRefusedOnOne ==
    /\ After("fight")
    /\ last.err = "ValueError"
    /\ last.calls = <<>>
    /\ Len(ring) = 1

\* C5: enter_ring with a Boxer on a ring of two fails with the capacity error
\* and leaves the same two occupants in the same order.
FullRingRefusesBoxer ==
    [][ (Called("enter_ring") /\ isinstance_Boxer(last'.arg) /\ Len(ring) = 2) =>
          /\ last'.err = "ValueError"
          /\ ring' = ring ]_vars

\* A third Boxer was refused.
ThirdBoxerRefused ==
    /\ After("enter_ring")
    /\ last.err = "ValueError"
    /\ isinstance_Boxer(last.arg)
    /\ Len(ring) = 2
    /\ last.arg \notin {ring[1], ring[2]}

\* C6: a successful enter_ring finds fewer than two occupants and adds the given
\* competitor as the last one, the earlier occupant staying first: get_boxers
\* gives the occupants in the order admitted.
EnterAppends ==
    [][ Returned("enter_ring") =>
          /\ Len(ring) \in {0, 1}
          /\ Len(ring') = Len(ring) + 1
          /\ ring' = Append(ring, last'.arg) ]_vars

\* A second, different competitor was admitted behind the first.
SecondAdmittedBehindFirst ==
    /\ AfterReturn("enter_ring")
    /\ Len(get_boxers) = 2
    /\ get_boxers[2] = last.arg
    /\ get_boxers[1] # get_boxers[2]

\* C7: every stored row has fights >= 0, wins >= 0 and wins <= fights; a created
\* row starts with both at 0; and the fights and wins of a row change only in a
\* call of update_boxer_stats, made directly or by fight().
StatsOK == \A i \in DOMAIN boxers :
    /\ boxers[i].fights \in Nat
    /\ boxers[i].wins \in Nat
    /\ boxers[i].wins <= boxers[i].fights

StatsStep ==
    /\ \A i \in DOMAIN boxers' \ DOMAIN boxers :
          boxers'[i].fights = 0 /\ boxers'[i].wins = 0
    /\ \A i \in DOMAIN boxers' \cap DOMAIN boxers :
          (boxers'[i].fights # boxers[i].fights \/ boxers'[i].wins # boxers[i].wins) =>
             \/ Returned("update_boxer_stats") /\ last'.arg[1] = i
             \/ /\ Called("fight")
                /\ \E k \in 1..Len(last'.calls) :
                      last'.calls[k].fn = "update_boxer_stats" /\ last'.calls[k].id = i

WinsNeverExceedFights == []StatsOK /\ [][StatsStep]_vars

\* A row with a loss and a win on it.
RowWithWinAndLoss ==
    /\ last.op \in {"update_boxer_stats", "fight"}
    /\ \E i \in DOMAIN boxers : boxers[i].fights = 2 /\ boxers[i].wins = 1

\* C8: a successful fight() makes one draw, then records the win of the winner,
\* then the loss of the loser, then clears the ring, and returns the winner's
\* name: update_boxer_stats is called exactly twice.
FightStepsInOrder ==
    [][ Returned("fight") =>
          \E w, l \in {1, 2} :
             /\ w # l
             /\ last'.calls = << Call("get_random", 0, ""),
                                 Call("update_boxer_stats", ring[w].id, "win"),
                                 Call("update_boxer_stats", ring[l].id, "loss"),
                                 Call("clear_ring", 0, "") >>
             /\ last'.draw \in Draws
             /\ last'.ret = ring[w].name
             /\ ring' = <<>> ]_vars

\* A fight the second-admitted occupant won has run all its steps.
SecondAdmittedWonAllSteps ==
    /\ AfterReturn("fight")
    /\ Len(last.calls) = 4
    /\ last.calls[2].id = last.arg[2].id
    /\ last.arg[1].id # last.arg[2].id
    /\ last.ret = last.arg[2].name

\* C9: clear_ring leaves the ring empty from a ring of 0, 1 or 2 and raises
\* nothing; on an empty ring it changes nothing, so a second call leaves what
\* the first left.
ClearEmpties ==
    [][ Called("clear_ring") =>
          /\ last'.err = "none"
          /\ ring' = <<>>
          /\ boxers' = boxers
          /\ Cleared(ring') = ring'
          /\ (ring = <<>> => ring' = ring) ]_vars

\* A ring of two was cleared.
ClearedFullRing ==
    /\ AfterReturn("clear_ring")
    /\ Len(last.arg) = 2
    /\ ring = <<>>

\* C10: enter_ring with an argument that is no Boxer fails with the type error
\* and leaves the ring as it was, whatever the ring holds; on a ring of two it
\* is the type error that is raised, not the capacity error.
NonBoxerRefused ==
    [][ (Called("enter_ring") /\ ~isinstance_Boxer(last'.arg)) =>
          /\ last'.err = "TypeError"
          /\ ring' = ring ]_vars

\* An argument that is no Boxer was refused on a ring of two.
NonBoxerRefusedOnFullRing ==
    /\ After("enter_ring")
    /\ last.err = "TypeError"
    /\ ~isinstance_Boxer(last.arg)
    /\ Len(ring) = 2

\* C11: create_boxer with arguments that pass the four checks and a name some
\* stored competitor has fails with the "already exists" error and leaves the
\* store as it was; and in every state reached by creates, deletes and updates no
\* two stored competitors share a name.
NamesUnique ==
    \A i, j \in DOMAIN boxers : i # j => boxers[i].name # boxers[j].name

TakenNameStep ==
    (/\ Called("create_boxer")
     /\ CreateCheck(last'.arg) = "none"
     /\ \E i \in DOMAIN boxers : boxers[i].name = last'.arg.name)
    => /\ last'.err = "ValueError"
       /\ last'.ret = "already exists"
       /\ boxers' = boxers

CreateValidationStep ==
    Called("create_boxer") =>
        LET a == last'.arg IN
        IF a.weight < 125 \/ a.height <= 0 \/ a.reach <= 0 \/ a.age < 18 \/ a.age > 40
        THEN /\ last'.err = "ValueError"
             /\ last'.ret \in {"weight", "height", "reach", "age"}
             /\ last'.calls = <<>>
             /\ boxers' = boxers
        ELSE (\A i \in DOMAIN boxers : boxers[i].name # a.name) =>
             /\ last'.err = "none"
             /\ \E i \in DOMAIN boxers' \ DOMAIN boxers : boxers'[i].name = a.name

CreateValidates == [][CreateValidationStep]_vars

\* A create was refused for its reach while the store held a competitor created
\* at weight 125 and age 40 and one created at age 18.
RefusedBesideBoundaryCompetitors ==
    /\ After("create_boxer")
    /\ last.ret = "reach"
    /\ \E i \in DOMAIN boxers : boxers[i].weight = 125 /\ boxers[i].age = 40
    /\ \E i \in DOMAIN boxers : boxers[i].age = 18

\* The store after the step is the store before it with one row more, under an
\* id no row had, holding the attributes given and fights = 0 and wins = 0.
OneRowAdded(id, a) ==
    /\ id \notin DOMAIN boxers
    /\ DOMAIN boxers' = DOMAIN boxers \cup {id}
    /\ \A i \in DOMAIN boxers : boxers'[i] = boxers[i]
    /\ boxers'[id] = [name |-> a.name, weight |-> a.weight, height |-> a.height,
                      reach |-> a.reach, age |-> a.age, fights |-> 0, wins |-> 0]

\* C13, as stated: a create_boxer that returns has added exactly one row with the
\* given attributes, fights = 0 and wins = 0 under an id no other row has, and
\* its return value is that id.
CreateReturnsAssignedId ==
    [][Returned("create_boxer") =>
          \E id \in DOMAIN boxers' : /\ OneRowAdded(id, last'.arg)
                                     /\ last'.ret = ToString(id)]_vars

\* C13, amended: a create_boxer that returns has added exactly one row with the
\* given attributes, fights = 0 and wins = 0 under an id no other row has, and
\* its return value is None: the id is not handed back.
CreateAddsOneRowReturnsNone ==
    [][Returned("create_boxer") =>
          /\ \E id \in DOMAIN boxers' : OneRowAdded(id, last'.arg)
          /\ last'.ret = "None"]_vars

\* A create returned with a second competitor in the store.
CreatedSecondCompetitor ==
    /\ AfterReturn("create_boxer")
    /\ Cardinality(DOMAIN boxers) = 2
    /\ \E i \in DOMAIN boxers : boxers[i].name = last.arg.name /\ boxers[i].fights = 0

\* C14: delete_boxer(id) with no row of that id fails with the "not found" error
\* and leaves the store as it was; otherwise it removes that row and no other.
\* Called next with the deleted id, get_boxer_by_id, update_boxer_stats with a
\* valid result and delete_boxer fail with "not found", and a leaderboard has no
\* entry of that id.
DeleteStep ==
    Called("delete_boxer") =>
        IF last'.arg \notin DOMAIN boxers
        THEN /\ last'.err = "ValueError"
             /\ last'.ret = "not found"
             /\ boxers' = boxers
        ELSE /\ last'.err = "none"
             /\ DOMAIN boxers' = DOMAIN boxers \ {last'.arg}
             /\ \A i \in DOMAIN boxers' : boxers'[i] = boxers[i]

AfterDeleteStep ==
    AfterReturn("delete_boxer") =>
        /\ last.arg \notin DOMAIN boxers
        /\ (Called("get_boxer_by_id") /\ last'.arg = last.arg)
              => last'.err = "ValueError" /\ last'.ret = "not found"
        /\ (Called("update_boxer_stats") /\ last'.arg[1] = last.arg)
              => /\ last'.err = "ValueError"
                 /\ last'.arg[2] \in {"win", "loss"} => last'.ret = "not found"
        /\ (Called("delete_boxer") /\ last'.arg = last.arg)
              => last'.err = "ValueError" /\ last'.ret = "not found"
        /\ Returned("get_leaderboard")
              => \A k \in 1..Len(last'.ret) : last'.ret[k].id # last.arg

DeleteRemovesForGood == [][DeleteStep /\ AfterDeleteStep]_vars

\* A competitor was deleted while another, with a fight on record, stayed and a
\* further fight could still be recorded.
DeletedRankedCompetitor ==
    /\ AfterReturn("delete_boxer")
    /\ last.arg \notin DOMAIN boxers
    /\ \E i \in DOMAIN boxers : boxers[i].fights > 0
    /\ TotalFights(boxers) < MaxFights

\* C15: an update_boxer_stats(id, result) that returns has raised the fights of
\* row id by exactly 1 and its wins by exactly 1 for "win" and by 0 for "loss";
\* the row's other fields, the other rows and the set of stored ids are as before.
UpdateFrameStep ==
    Returned("update_boxer_stats") =>
        LET id == last'.arg[1]
            result == last'.arg[2]
        IN  /\ id \in DOMAIN boxers
            /\ DOMAIN boxers' = DOMAIN boxers
            /\ boxers'[id].fights = boxers[id].fights + 1
            /\ boxers'[id].wins = boxers[id].wins + (IF result = "win" THEN 1 ELSE 0)
            /\ \A f \in {"name", "weight", "height", "reach", "age"} :
                  boxers'[id][f] = boxers[id][f]
            /\ \A i \in DOMAIN boxers \ {id} : boxers'[i] = boxers[i]

UpdateCountsOneRow == [][UpdateFrameStep]_vars

\* A win was recorded for one competitor while the other kept its one loss.
WinRecordedBesideLoser ==
    /\ AfterReturn("update_boxer_stats")
    /\ last.arg[2] = "win"
    /\ \E i \in DOMAIN boxers \ {last.arg[1]} :
          boxers[i].fights = 1 /\ boxers[i].wins = 0

\* C16: update_boxer_stats with a result that is neither "win" nor "loss" fails
\* with the "Invalid result" error, whether or not a row has the id, and opens
\* no database connection; with a valid result and an id no row has it fails
\* with the "not found" error; both leave every row as it was.
UpdateRefusalStep ==
    Called("update_boxer_stats") =>
        LET id == last'.arg[1]
            result == last'.arg[2]
        IN  /\ result \notin {"win", "loss"}
                => /\ last'.err = "ValueError"
                   /\ last'.ret = "Invalid result"
                   /\ last'.calls = <<>>
                   /\ boxers' = boxers
            /\ (result \in {"win", "loss"} /\ id \notin DOMAIN boxers)
                => /\ last'.err = "ValueError"
                   /\ last'.ret = "not found"
                   /\ boxers' = boxers

UpdateRefusals == [][UpdateRefusalStep]_vars

\* An invalid result was refused for an id no row has, beside a stored
\* competitor with a fight on record.
InvalidResultRefusedForAbsentId ==
    /\ After("update_boxer_stats")
    /\ last.ret = "Invalid result"
    /\ last.arg[1] \notin DOMAIN boxers
    /\ \E i \in DOMAIN boxers : boxers[i].fights = 1

\* C17: on every store, a get_leaderboard that returns gives one entry for each
\* stored competitor with fights > 0, each once, and none for a competitor with
\* fights = 0, so no entry's ratio has a zero divisor; the fights and wins of an
\* entry are those of the stored row.
LeaderboardListsFighters ==
    AfterReturn("get_leaderboard") =>
        LET entries == last.ret IN
        /\ {entries[k].id : k \in 1..Len(entries)}
               = {i \in DOMAIN boxers : boxers[i].fights > 0}
        /\ \A j, k \in 1..Len(entries) : j # k => entries[j].id # entries[k].id
        /\ \A k \in 1..Len(entries) :
              /\ entries[k].fights > 0
              /\ entries[k].fights = boxers[entries[k].id].fights
              /\ entries[k].wins = boxers[entries[k].id].wins
              /\ entries[k].name = boxers[entries[k].id].name

\* A leaderboard of one entry, of a competitor with a single fight, was returned
\* on a store that also holds a competitor without fights.
LeaderboardLeftOutNewcomer ==
    /\ AfterReturn("get_leaderboard")
    /\ Len(last.ret) = 1
    /\ last.ret[1].fights = 1
    /\ \E i \in DOMAIN boxers : boxers[i].fights = 0

InvalidSortKeyStep ==
    (Called("get_leaderboard") /\ last'.arg \notin {"wins", "win_pct"})
    => /\ last'.err = "ValueError"
       /\ last'.ret = "Invalid sort_by"
       /\ last'.calls = <<>>
       /\ boxers' = boxers

InvalidSortKeyRefused == [][InvalidSortKeyStep]_vars

\* An unknown sort key was refused on a store of two ranked competitors.
SortKeyRefusedOnRankedStore ==
    /\ After("get_leaderboard")
    /\ last.err = "ValueError"
    /\ Cardinality({i \in DOMAIN boxers : boxers[i].fights > 0}) = 2

\* C20: for every integer weight w, get_weight_class(w) returns FEATHERWEIGHT
\* for 125 <= w < 133, LIGHTWEIGHT for 133 <= w < 166, MIDDLEWEIGHT for
\* 166 <= w < 203 and HEAVYWEIGHT for w >= 203, and fails with a ValueError for
\* w < 125: every weight from 125 on is given exactly one of the four classes.
WeightClasses ==
    After("get_weight_class") =>
        LET w == last.arg IN
        /\ w < 125 => last.err = "ValueError"
        /\ w >= 125 =>
              /\ last.err = "none"
              /\ Cardinality({c \in {"FEATHERWEIGHT", "LIGHTWEIGHT", "MIDDLEWEIGHT",
                                     "HEAVYWEIGHT"} : last.ret = c}) = 1
              /\ last.ret = "FEATHERWEIGHT" <=> (125 <= w /\ w < 133)
              /\ last.ret = "LIGHTWEIGHT" <=> (133 <= w /\ w < 166)
              /\ last.ret = "MIDDLEWEIGHT" <=> (166 <= w /\ w < 203)
              /\ last.ret = "HEAVYWEIGHT" <=> w >= 203

\* The class of the weight 203 was asked for and HEAVYWEIGHT returned.
HeavyweightFrom203 ==
    /\ AfterReturn("get_weight_class")
    /\ last.arg = 203
    /\ last.ret = "HEAVYWEIGHT"

\* C21: get_boxer_by_id and get_boxer_by_name fail with the "not found" error
\* when no stored row matches and leave the store as it was; otherwise they
\* return the stored competitor, its weight_class being get_weight_class of the
\* stored weight; every entry of a leaderboard has its weight_class so too.
IsStoredCompetitor(b, store) ==
    /\ b.id \in DOMAIN store
    /\ \A f \in {"name", "weight", "height", "reach", "age"} : b[f] = store[b.id][f]
    /\ b.weight_class = get_weight_class(store[b.id].weight)
    /\ b.weight_class \in {"FEATHERWEIGHT", "LIGHTWEIGHT", "MIDDLEWEIGHT", "HEAVYWEIGHT"}

ReadStep ==
    /\ Called("get_boxer_by_id") =>
          /\ boxers' = boxers
          /\ IF last'.arg \in DOMAIN boxers
             THEN /\ last'.err = "none"
                  /\ last'.ret.id = last'.arg
                  /\ IsStoredCompetitor(last'.ret, boxers)
             ELSE last'.err = "ValueError" /\ last'.ret = "not found"
    /\ Called("get_boxer_by_name") =>
          /\ boxers' = boxers
          /\ IF \E i \in DOMAIN boxers : boxers[i].name = last'.arg
             THEN /\ last'.err = "none"
                  /\ last'.ret.name = last'.arg
                  /\ IsStoredCompetitor(last'.ret, boxers)
             ELSE last'.err = "ValueError" /\ last'.ret = "not found"
    /\ Returned("get_leaderboard") =>
          \A k \in 1..Len(last'.ret) : IsStoredCompetitor(last'.ret[k], boxers)

ReadsGiveStoredCompetitor == [][ReadStep]_vars

\* The competitor stored at weight 125 was read by name, as a featherweight,
\* beside another stored competitor.
FeatherweightReadByName ==
    /\ AfterReturn("get_boxer_by_name")
    /\ last.ret.weight = 125
    /\ last.ret.weight_class = "FEATHERWEIGHT"
    /\ Cardinality(DOMAIN boxers) = 2

\* C22: get_fighting_skill of a competitor is weight * (length of name)
\* + reach / 10 + modifier, the modifier being -1 for an age below 25, -2 for an
\* age above 35 and 0 from 25 to 35, both included; Ali of weight 180, reach
\* 74.5 and age 28 has 547.45. The value is the same whatever the ring holds.
SkillFormula ==
    After("get_fighting_skill") =>
        LET b == last.arg
            modifier == IF b.age < 25 THEN -1 ELSE IF b.age > 35 THEN -2 ELSE 0
        IN  /\ last.ret = 100 * (b.weight * Len(b.name) + modifier) + b.reach
            /\ b.age \in {25, 35} => last.ret = 100 * b.weight * Len(b.name) + b.reach
            /\ (b.name = "Ali" /\ b.weight = 180 /\ b.reach = 745 /\ b.age = 28)
                  => last.ret = 54745

\* The skill of Ali, 547.45, was computed while the ring held two boxers.
AliSkillOnFullRing ==
    /\ After("get_fighting_skill")
    /\ last.arg.name = "Ali" /\ last.arg.weight = 180
    /\ last.arg.reach = 745 /\ last.arg.age = 28
    /\ last.ret = 54745
    /\ Len(ring) = 2

\* C23: when two create_boxer calls of one name overlap, both passing the SELECT
\* on the name before either INSERT, the INSERT that comes second adds no row
\* and its call fails with the "already exists" error, the other having
\* succeeded; no state holds two competitors of one name.
OverlappingInsertStep ==
    \A t \in Callers :
        (pending[t] # Idle /\ pending'[t] = Idle) =>
            LET a == pending[t].arg IN
            IF \E i \in DOMAIN boxers : boxers[i].name = a.name
            THEN /\ last'.op = "create_boxer"
                 /\ last'.err = "ValueError"
                 /\ last'.ret = "already exists"
                 /\ boxers' = boxers
            ELSE /\ last'.err = "none"
                 /\ Cardinality({i \in DOMAIN boxers' : boxers'[i].name = a.name}) = 1

OverlappingCreatesConflict ==
    /\ [](\A i, j \in DOMAIN boxers : boxers[i].name = boxers[j].name => i = j)
    /\ [][OverlappingInsertStep]_vars

\* A create_boxer that had passed the SELECT on the name was refused at its
\* INSERT: the name is stored once, by the call it overlapped with.
LostTheInsertRace ==
    /\ After("create_boxer")
    /\ last.err = "ValueError"
    /\ Len(last.calls) = 2
    /\ Cardinality({i \in DOMAIN boxers : boxers[i].name = last.arg.name}) = 1

\* C24: a fight() on a full ring that made its draw and finds the row of an
\* occupant gone from the store fails with the "not found" error of
\* update_boxer_stats, names no winner and does not clear the ring, which holds
\* the same two occupants in the same order afterwards.
RecordFailureStep ==
    (/\ Called("fight")
     /\ Len(ring) = 2
     /\ last'.draw # -1
     /\ \E k \in 1..2 : ring[k].id \notin DOMAIN boxers)
    => /\ last'.err = "ValueError"
       /\ last'.ret = "not found"
       /\ last'.calls[Len(last'.calls)].fn = "update_boxer_stats"
       /\ ring' = ring

RecordFailureKeepsRing == [][RecordFailureStep]_vars

\* A fight failed at its second update, the loser's row being gone, and the ring
\* still holds the two occupants.
FightFailedOnDeletedLoser ==
    /\ After("fight")
    /\ last.ret = "not found"
    /\ Len(last.calls) = 3
    /\ ring = last.arg
    /\ Len(ring) = 2

\* C25: a fight() on a full ring whose request to the randomness source fails
\* raises that RuntimeError or ValueError after the one request, records no
\* result and leaves every stored row and both occupants of the ring as they were.
RandomFailureStep ==
    (Called("fight") /\ Len(ring) = 2 /\ last'.draw = -1)
    => /\ last'.err \in {"RuntimeError", "ValueError"}
       /\ last'.calls = <<[fn |-> "get_random", id |-> 0, result |-> ""]>>
       /\ boxers' = boxers
       /\ ring' = ring

RandomFailurePropagates == [][RandomFailureStep]_vars

\* A fight raised the RuntimeError of the randomness source on a full ring, a
\* stored competitor having one fight on record.
FightRaisedRuntimeError ==
    /\ After("fight")
    /\ last.err = "RuntimeError"
    /\ Len(ring) = 2
    /\ \E i \in DOMAIN boxers : boxers[i].fights = 1

\* C26, as stated: a fight() call, returning or failing, has recorded either
\* both results, one win and one loss, or none: a fight() that fails leaves every
\* stored row as it was.
FightAllOrNothing ==
    [][Called("fight") => (last'.err = "none" \/ boxers' = boxers)]_vars

\* What the code does instead: a fight() failed with "not found" at the loser's
\* update after the winner's win was recorded, and the ring still holds both.
WinRecordedByFailedFight ==
    /\ After("fight")
    /\ last.ret = "not found"
    /\ Len(last.calls) = 3
    /\ last.calls[2].id \in DOMAIN boxers
    /\ boxers[last.calls[2].id].wins > 0
    /\ Len(ring) = 2

\* C27: with the capacity check and the append of two enter_ring calls on one
\* ring interleaved, both calls can succeed from a ring of one occupant and the
\* ring then holds three. A third occupant is only ever appended by a call
\* whose check saw fewer occupants than the ring holds at its append: a call
\* whose check and append are not separated by another call's append leaves
\* at most two.
OverlapAppendStep ==
    \A t \in Callers :
        (pending[t] # Idle /\ pending'[t] = Idle) =>
            /\ ring' = Append(ring, pending[t].arg)
            /\ pending[t].seen < 2
            /\ Len(ring') > 2 => pending[t].seen < Len(ring)
            /\ pending[t].seen = Len(ring) => Len(ring') <= 2

OverflowOnlyByOverlap == [](Len(ring) <= 3) /\ [][OverlapAppendStep]_vars

\* Two overlapping enter_ring calls both returned and the ring holds three
\* occupants.
ThreeInTheRing ==
    /\ AfterReturn("enter_ring")
    /\ Len(ring) = 3
    /\ pending = NoPending

\* C28: enter_ring with a Boxer on a ring of fewer than two returns and appends
\* it, whoever is in the ring already; a fight() that returns on a ring whose
\* two occupants have the same id has added 2 to the fights and 1 to the wins of
\* that one row.
SameIdStep ==
    /\ (Called("enter_ring") /\ isinstance_Boxer(last'.arg) /\ Len(ring) < 2)
          => /\ last'.err = "none"
             /\ ring' = Append(ring, last'.arg)
    /\ (Returned("fight") /\ ring[1].id = ring[2].id)
          => /\ boxers'[ring[1].id].fights = boxers[ring[1].id].fights + 2
             /\ boxers'[ring[1].id].wins = boxers[ring[1].id].wins + 1
             /\ \A i \in DOMAIN boxers \ {ring[1].id} : boxers'[i] = boxers[i]

SameCompetitorTwice == [][SameIdStep]_vars

\* A fight between two handles of one id returned: that row has two fights and
\* one win.
FoughtItself ==
    /\ AfterReturn("fight")
    /\ last.arg[1].id = last.arg[2].id
    /\ last.arg[1].id \in DOMAIN boxers
    /\ boxers[last.arg[1].id].fights = 2
    /\ boxers[last.arg[1].id].wins = 1

\* C29: create_boxer, delete_boxer, get_boxer_by_id, get_boxer_by_name,
\* get_leaderboard and a direct update_boxer_stats leave the ring as it was, a
\* deleted competitor's handle included; enter_ring, clear_ring and get_boxers
\* leave every stored row as it was; a call that changes both the ring and the
\* store is a fight().
StoreOps ==
    {"create_boxer", "delete_boxer", "get_boxer_by_id", "get_boxer_by_name",
     "get_leaderboard", "update_boxer_stats"}

RingOps == {"enter_ring", "clear_ring", "get_boxers"}

FrameStep ==
    /\ last'.op \in StoreOps => ring' = ring
    /\ last'.op \in RingOps => boxers' = boxers
    /\ (ring' # ring /\ boxers' # boxers) => Returned("fight")
    /\ (Called("fight") /\ ring' # ring) => (Returned("fight") /\ boxers' # boxers)

RingAndStoreApart == [][FrameStep]_vars

\* A competitor was deleted from the store while its handle was in the ring,
\* where it still is.
StaleHandleInRing ==
    /\ AfterReturn("delete_boxer")
    /\ last.arg \notin DOMAIN boxers
    /\ \E k \in 1..Len(ring) : ring[k].id = last.arg

====
